---- MODULE Spec2Model ----
(***************************************************************************)
(* A model of LLM-Service-Factory: the memoizing service factory, the      *)
(* shared construction-time validation, the retry wrapper, the token usage *)
(* tracker and the provider operations built on them.                      *)
(*                                                                         *)
(* Temperatures are kept in tenths (20 is 2.0).  Costs are Python floats    *)
(* (binary64): each is kept as the integer count of 2^-72 dollars it is    *)
(* exactly, and every product and sum is rounded to 53 significant bits,   *)
(* to nearest, ties to even, as the hardware rounds it.                    *)
(***************************************************************************)
EXTENDS Integers, Sequences, FiniteSets, TLC

VARIABLES
    \* LLMServiceFactory
    services,     \* LLMServiceFactory._services: key -> the object's identity
    instances,    \* every service object constructed so far, by its identity
    env,          \* which providers' credentials the environment holds
    lastCall,     \* what the last get_service call did and returned
    callers,      \* per thread, where it is in get_service and what it holds
    \* retry_request
    rpc,          \* where the call is: "idle", "loop", "returned", "raised"
    retries,      \* the argument `retries`
    wait_time,    \* the argument `wait_time`, in tenths of a second
    attempt,      \* the loop variable
    calls,        \* the outcome of every func() invocation so far, in order
    result,       \* the value returned to the caller
    raised,       \* the errors that reached the caller
    sleeps,       \* the duration of every sleep() so far, in order
    \* TokenTracker
    usageFile,    \* tokens_usage.json: absent, or the document last written
    costRates,    \* TokenTracker.COST_RATES
    lock,         \* TokenTracker._lock: the thread holding it, or None
    passed,       \* per model, the sums of the increments passed so far
    nUpdates,     \* how many update_tokens_usage calls were made
    tpc,          \* per thread, where it is in update_tokens_usage
    targs,        \* per thread, the arguments of its call
    tdoc,         \* per thread, its local tokens_usage
    \* a service operation
    svc,          \* the service object the operation is called on
    op,           \* the operation: its name, arguments and how it ended
    messages,     \* the caller's `messages` list
    tools,        \* the caller's `tools` list
    remoteCalls,  \* how many requests the operation sent to the provider
    sent,         \* the `tools` argument of each of these requests, in order
    filesRead,    \* the image files the operation read
    nOps          \* how many operations were called

factoryVars == <<services, instances, env, lastCall, callers>>

retryVars == <<rpc, retries, wait_time, attempt, calls, result, raised, sleeps>>

trackerVars == <<usageFile, costRates, lock, passed, nUpdates, tpc, targs, tdoc>>

serviceVars ==
    <<svc, op, messages, tools, remoteCalls, sent, filesRead, nOps>>

vars == <<factoryVars, retryVars, trackerVars, serviceVars>>

None == "None"

\* The identity that stands for "no object".
NoInstance == << >>

\* The arguments recorded before any call.
NoArgs == << >>

\* Python values that operations return: None, a str, a list.
PyNone == [type |-> "NoneType", str |-> "", items |-> << >>]

PyStr(text) == [type |-> "str", str |-> text, items |-> << >>]

PyList(items) == [type |-> "list", str |-> "", items |-> items]

\* Python's truth value of such a value: None, "" and [] are false.
Truthy(v) ==
    \/ v.type = "str" /\ v.str # ""
    \/ v.type = "list" /\ Len(v.items) > 0

------------------------------------------------------------------------------
(* Bounds of the model *)

MaxInstances == 2

\* The largest `retries` a caller passes.
MaxRetries == 3

\* How many update_tokens_usage calls a behaviour makes.
MaxUpdates == 3

\* How many service operations a behaviour calls.
MaxOps == 2

------------------------------------------------------------------------------
(* Input domains *)

\* The threads of the process.
Threads == {"t1", "t2"}

ModelNames == {"gpt-4o", "zephyr"}

\* What HuggingFace's list_deployed_models()["text-generation"] answers.
DeployedModels == {"zephyr"}

SupportedProviders == {"AzureOpenAI", "HuggingFace", "OpenAI"}

Providers == SupportedProviders \cup {"Anthropic"}

\* tenths: -0.1, 0.0, 2.0, 2.1
Temperatures == {-1, 0, 20, 21}

MaxTokens == {0, 1}

\* float("nan") passed as the temperature: the float that every comparison
\* with a number answers False for.  It is kept as a number that no
\* temperature in tenths takes.
NaN == 999

\* Temperatures as floats: in range, not a number, above the range.
FloatTemperatures == {0, NaN, 21}

Keys == ModelNames \X Providers \X Temperatures \X MaxTokens

------------------------------------------------------------------------------
(* llm_interface.py, azure_openai_service.py, huggingface_service.py *)

\* AzureOpenAIService.initialize_client: two environment reads, then the client
\* object; no request is sent.
AzureInitializeClient(model_name, e) ==
    IF ~e.azure
    THEN [ok |-> FALSE, err |-> "EnvironmentError", netCall |-> FALSE,
          token |-> None]
    ELSE [ok |-> TRUE, err |-> None, netCall |-> FALSE, token |-> "key"]

\* HuggingFaceService._get_available_models: a remote listing, made with
\* whatever token the environment holds (None when it holds none).
GetAvailableModels == DeployedModels

\* os.getenv("HUGGINGFACE_API_TOKEN") (lines 26 and 107): the token, or None;
\* either is handed to InferenceClient as it is.
HuggingFaceToken(e) == IF e.huggingface THEN "token" ELSE None

\* HuggingFaceService.initialize_client: the available-model lookup comes
\* first; the token is read and passed on, and never tested.
HuggingFaceInitializeClient(model_name, e) ==
    IF model_name \notin GetAvailableModels
    THEN [ok |-> FALSE, err |-> "ValueError:model", netCall |-> TRUE,
          token |-> HuggingFaceToken(e)]
    ELSE [ok |-> TRUE, err |-> None, netCall |-> TRUE,
          token |-> HuggingFaceToken(e)]

\* OpenAIService.initialize_client (llm_services/openai_service.py is not part
\* of the sources at hand): credentials are required, no request is sent.
OpenAIInitializeClient(model_name, e) ==
    IF ~e.openai
    THEN [ok |-> FALSE, err |-> "EnvironmentError", netCall |-> FALSE,
          token |-> None]
    ELSE [ok |-> TRUE, err |-> None, netCall |-> FALSE, token |-> "key"]

InitializeClient(class, model_name, e) ==
    CASE class = "AzureOpenAIService" -> AzureInitializeClient(model_name, e)
      [] class = "HuggingFaceService" -> HuggingFaceInitializeClient(model_name, e)
      [] class = "OpenAIService"      -> OpenAIInitializeClient(model_name, e)

\* Python's < on two numbers: False when either is not a number.
PyLess(a, b) == a # NaN /\ b # NaN /\ a < b

\* The range test without its lower bound.
TemperatureRejected_NoLowerBound(temperature) == PyLess(20, temperature)

\* The range test of LLMService.__init__ on temperature (line 19):
\* `temperature < 0 or temperature > 2`.
TemperatureRejected(temperature) ==
    PyLess(temperature, 0) \/ PyLess(20, temperature)

\* The test of LLMService.__init__ on max_tokens (line 21).
MaxTokensRejected(max_tokens) == max_tokens < 1

\* LLMService.__init__, reached through each subclass's __init__: validation,
\* load_dotenv, the attributes, initialize_client.  The result says whether an
\* object came out of it and what was touched on the way.
ServiceInit(class, model_name, temperature, max_tokens, e) ==
    IF TemperatureRejected(temperature)
    THEN [ok |-> FALSE, err |-> "ValueError:temperature", envRead |-> FALSE,
          initRan |-> FALSE, netCall |-> FALSE, inst |-> None]
    ELSE IF MaxTokensRejected(max_tokens)
    THEN [ok |-> FALSE, err |-> "ValueError:max_tokens", envRead |-> FALSE,
          initRan |-> FALSE, netCall |-> FALSE, inst |-> None]
    ELSE LET c == InitializeClient(class, model_name, e)
         IN  [ok |-> c.ok, err |-> c.err, envRead |-> TRUE,
              initRan |-> TRUE, netCall |-> c.netCall,
              inst |-> IF c.ok
                       THEN [class |-> class, model_name |-> model_name,
                             temperature |-> temperature,
                             max_tokens |-> max_tokens]
                       ELSE None]

\* AzureOpenAIService.__init__ (lines 11-12): the shared constructor.
AzureOpenAIServiceNew(model_name, temperature, max_tokens, e) ==
    ServiceInit("AzureOpenAIService", model_name, temperature, max_tokens, e)

\* HuggingFaceService.__init__ (lines 18-19): the shared constructor.
HuggingFaceServiceNew(model_name, temperature, max_tokens, e) ==
    ServiceInit("HuggingFaceService", model_name, temperature, max_tokens, e)

\* OpenAIService.__init__ (not part of the sources at hand): the shared
\* constructor, as for the other two providers.
OpenAIServiceNew(model_name, temperature, max_tokens, e) ==
    ServiceInit("OpenAIService", model_name, temperature, max_tokens, e)

\* The constructor call of the class the dispatch chose.
Construct(class, model_name, temperature, max_tokens, e) ==
    CASE class = "AzureOpenAIService" ->
            AzureOpenAIServiceNew(model_name, temperature, max_tokens, e)
      [] class = "HuggingFaceService" ->
            HuggingFaceServiceNew(model_name, temperature, max_tokens, e)
      [] class = "OpenAIService" ->
            OpenAIServiceNew(model_name, temperature, max_tokens, e)

------------------------------------------------------------------------------
(* LLMServiceFactory.py *)

\* The dispatch with the OpenAI branch building the Azure class.
ProviderClass_OpenAIAsAzure(provider) ==
    CASE provider = "AzureOpenAI" -> "AzureOpenAIService"
      [] provider = "HuggingFace" -> "HuggingFaceService"
      [] provider = "OpenAI"      -> "AzureOpenAIService"
      [] OTHER                    -> None

\* The provider dispatch of get_service (lines 19-27).
ProviderClass(provider) ==
    CASE provider = "AzureOpenAI" -> "AzureOpenAIService"
      [] provider = "HuggingFace" -> "HuggingFaceService"
      [] provider = "OpenAI"      -> "OpenAIService"
      [] OTHER                    -> None

\* The key with the temperature left out of it.
ServiceKey_NoTemperature(model_name, provider, temperature, max_tokens) ==
    <<model_name, provider, 0, max_tokens>>

NoCall == [args |-> NoArgs, ctor |-> None, outcome |-> None, ret |-> NoInstance,
           envRead |-> FALSE, initRan |-> FALSE, netCall |-> FALSE,
           again |-> FALSE]

\* The registry key built on line 16.
ServiceKey(model_name, provider, temperature, max_tokens) ==
    <<model_name, provider, temperature, max_tokens>>

\* The membership test that never finds the key.
Cached_NeverFound(key) == FALSE

\* `key not in cls._services` (line 17), negated.
Cached(key) == key \in DOMAIN services

\* An insert that keeps the entry a key already has.
StoreService_KeepsFirst(key, id) ==
    [k \in DOMAIN services \cup {key} |->
        IF k \in DOMAIN services THEN services[k] ELSE id]

\* `cls._services[key] = <instance>` (lines 20, 22, 24).
StoreService(key, id) ==
    [k \in DOMAIN services \cup {key} |-> IF k = key THEN id ELSE services[k]]

\* The identity of the object a constructor call returns: the constructor's
\* arguments and a serial number among the objects built with them, so that
\* no two objects share an identity.
NewObject(args) ==
    <<args, 1 + Cardinality({i \in DOMAIN instances : i[1] = args})>>

\* The key entered in the registry before its constructor has returned.
RegistryAfterRaise_KeepsPlaceholder(key) == StoreService(key, NoInstance)

\* The registry after a constructor call that raised: the assignment of line
\* 20, 22 or 24 was not reached.
RegistryAfterRaise(key) == services

\* LLMServiceFactory.get_service, as one single-threaded call.  lastCall keeps
\* the call's arguments, the constructor it entered, how it ended and what the
\* construction touched, and whether the call repeats, with the same
\* arguments, a call that raised in initialize_client.
GetService(model_name, provider, temperature, max_tokens) ==
    LET args  == <<model_name, provider, temperature, max_tokens>>
        key   == ServiceKey(model_name, provider, temperature, max_tokens)
        class == ProviderClass(provider)
        again == /\ lastCall.args = args
                 /\ lastCall.initRan
                 /\ lastCall.outcome # "returned"
    IN
    /\ env' = env
    /\ callers' = callers
    /\ UNCHANGED <<retryVars, trackerVars, serviceVars>>
    /\ IF Cached(key)
       THEN /\ UNCHANGED <<services, instances>>
            /\ lastCall' = [args |-> args, ctor |-> None, outcome |-> "returned",
                            ret |-> services[key], envRead |-> FALSE,
                            initRan |-> FALSE, netCall |-> FALSE,
                            again |-> again]
       ELSE IF class = None
       THEN /\ UNCHANGED <<services, instances>>
            /\ lastCall' = [args |-> args, ctor |-> None,
                            outcome |-> "ValueError:provider",
                            ret |-> NoInstance, envRead |-> FALSE,
                            initRan |-> FALSE, netCall |-> FALSE,
                            again |-> again]
       ELSE LET r == Construct(class, model_name, temperature, max_tokens, env)
                id == NewObject(args)
            IN  IF r.ok
                THEN /\ Cardinality(DOMAIN instances) < MaxInstances
                     /\ instances' = [i \in DOMAIN instances \cup {id} |->
                                        IF i = id THEN r.inst ELSE instances[i]]
                     /\ services' = StoreService(key, id)
                     /\ lastCall' = [args |-> args, ctor |-> class,
                                     outcome |-> "returned",
                                     ret |-> services'[key],
                                     envRead |-> r.envRead, initRan |-> r.initRan,
                                     netCall |-> r.netCall, again |-> again]
                ELSE /\ services' = RegistryAfterRaise(key)
                     /\ instances' = instances
                     /\ lastCall' = [args |-> args, ctor |-> class,
                                     outcome |-> r.err, ret |-> NoInstance,
                                     envRead |-> r.envRead, initRan |-> r.initRan,
                                     netCall |-> r.netCall, again |-> again]

(* The same method, statement by statement, for threads that share the class: *)
(* nothing in it is locked, and a thread switch can come between any two of   *)
(* its statements and between a constructor's return and the assignment.      *)

NoCaller == [pc |-> "idle", args |-> NoArgs, built |-> NoInstance,
             ret |-> NoInstance, error |-> None]

\* A thread calls get_service: the key (line 16), the membership test (line
\* 17) and the provider dispatch (lines 19-27), up to the constructor call.
CallGetService(t, model_name, provider, temperature, max_tokens) ==
    LET key == ServiceKey(model_name, provider, temperature, max_tokens)
        c   == [NoCaller EXCEPT
                    !.args = <<model_name, provider, temperature, max_tokens>>]
    IN
    /\ callers[t].pc = "idle"
    /\ callers' = [callers EXCEPT ![t] =
            IF Cached(key) THEN [c EXCEPT !.pc = "return"]
            ELSE IF ProviderClass(provider) = None
            THEN [c EXCEPT !.pc = "raised", !.error = "ValueError:provider"]
            ELSE [c EXCEPT !.pc = "construct"]]
    /\ UNCHANGED <<services, instances, env, lastCall>>
    /\ UNCHANGED <<retryVars, trackerVars, serviceVars>>

\* The constructor call on the right of line 20, 22 or 24.
ConstructInstance(t) ==
    LET a  == callers[t].args
        r  == Construct(ProviderClass(a[2]), a[1], a[3], a[4], env)
        id == NewObject(a)
    IN
    /\ callers[t].pc = "construct"
    /\ IF r.ok
       THEN /\ Cardinality(DOMAIN instances) < MaxInstances
            /\ instances' = [i \in DOMAIN instances \cup {id} |->
                                IF i = id THEN r.inst ELSE instances[i]]
            /\ callers' = [callers EXCEPT ![t].pc = "store", ![t].built = id]
       ELSE /\ instances' = instances
            /\ callers' = [callers EXCEPT ![t].pc = "raised",
                                          ![t].error = r.err]
    /\ UNCHANGED <<services, env, lastCall>>
    /\ UNCHANGED <<retryVars, trackerVars, serviceVars>>

\* The assignment of line 20, 22 or 24.
StoreInstance(t) ==
    /\ callers[t].pc = "store"
    /\ services' = StoreService(ServiceKey(callers[t].args[1], callers[t].args[2],
                                           callers[t].args[3], callers[t].args[4]),
                                callers[t].built)
    /\ callers' = [callers EXCEPT ![t].pc = "return"]
    /\ UNCHANGED <<instances, env, lastCall>>
    /\ UNCHANGED <<retryVars, trackerVars, serviceVars>>

\* Line 28: the registry is read again for the value returned.
ReturnService(t) ==
    /\ callers[t].pc = "return"
    /\ callers' = [callers EXCEPT
            ![t].pc = "returned",
            ![t].ret = services[ServiceKey(callers[t].args[1], callers[t].args[2],
                                           callers[t].args[3], callers[t].args[4])]]
    /\ UNCHANGED <<services, instances, env, lastCall>>
    /\ UNCHANGED <<retryVars, trackerVars, serviceVars>>

------------------------------------------------------------------------------
(* utils/retry_logic.py *)

\* What func() returns when it succeeds (None is a value a callee may return).
Results == {PyStr("text"), PyNone}

\* What func() raises when it fails: subclasses of Exception.
Errors == {"Timeout", "RateLimit"}

FuncOutcomes ==
    [ok : {TRUE}, val : Results] \cup [ok : {FALSE}, val : Errors]

\* The values a caller passes for `retries`.
RetriesValues == -1..MaxRetries

\* The values a caller passes for `wait_time` (0.5 is the default).
WaitTimes == {0, 5, 10}

\* range(retries) with its first index skipped.
RetryRange_FromOne(n) == 1..(n - 1)

\* range(retries) of line 16.
RetryRange(n) == 0..(n - 1)

\* The test of line 20 comparing against retries instead of retries - 1.
IsLastAttempt_OffByOne(a, n) == a = n

\* `attempt == retries - 1` (line 20).
IsLastAttempt(a, n) == a = n - 1

\* The for statement of line 16 taking the index a, or, with the range used
\* up, control falling off the end of the function, which returns None.
LoopFrom(a, n) ==
    IF a \in RetryRange(n)
    THEN /\ rpc' = "loop"
         /\ attempt' = a
         /\ result' = result
    ELSE /\ rpc' = "returned"
         /\ attempt' = attempt
         /\ result' = PyNone

\* The first index of range(n) (n itself when the range is empty).
FirstIndex(n) ==
    IF RetryRange(n) = {} THEN n
    ELSE CHOOSE a \in RetryRange(n) : \A b \in RetryRange(n) : a <= b

\* What entering retry_request(func, n, w) does to its own variables.
EnterRetry(n, w) ==
    /\ rpc = "idle"
    /\ retries' = n
    /\ wait_time' = w
    /\ LoopFrom(FirstIndex(n), n)
    /\ UNCHANGED <<calls, raised, sleeps>>

\* A pass of the loop body in which func() returns v (line 18).
FuncReturned(v) ==
    /\ rpc = "loop"
    /\ calls' = Append(calls, [ok |-> TRUE, val |-> v])
    /\ rpc' = "returned"
    /\ result' = v
    /\ UNCHANGED <<retries, wait_time, attempt, raised, sleeps>>

\* A wait that grows with the attempts made.
SleepTime_Growing(w, a) == w * (a + 1)

\* sleep(wait_time) (line 22): the same wait after every failed attempt.
SleepTime(w, a) == w

\* A pass of the loop body in which func() raises e (lines 19-22): the last
\* attempt raises the aggregated RuntimeError, any other sleeps and goes on.
FuncRaised(e) ==
    /\ rpc = "loop"
    /\ calls' = Append(calls, [ok |-> FALSE, val |-> e])
    /\ IF IsLastAttempt(attempt, retries)
       THEN /\ raised' = Append(raised, [type |-> "RuntimeError",
                                         retries |-> retries, cause |-> e])
            /\ rpc' = "raised"
            /\ UNCHANGED <<attempt, result, sleeps>>
       ELSE /\ sleeps' = Append(sleeps, SleepTime(wait_time, attempt))
            /\ LoopFrom(attempt + 1, retries)
            /\ UNCHANGED raised
    /\ UNCHANGED <<retries, wait_time>>

(* retry_request around a func that stands for any callable. *)

RetryRequest(n, w) ==
    EnterRetry(n, w) /\ UNCHANGED <<factoryVars, trackerVars, serviceVars>>

AttemptReturns(v) ==
    FuncReturned(v) /\ UNCHANGED <<factoryVars, trackerVars, serviceVars>>

AttemptRaises(e) ==
    FuncRaised(e) /\ UNCHANGED <<factoryVars, trackerVars, serviceVars>>

------------------------------------------------------------------------------
(* utils/token_tracker.py *)

\* The models whose usage is tracked: two with a rate in COST_RATES, one
\* without.
TrackedModels == {"gpt-4o", "gpt-35-turbo", "zephyr"}

\* The (prompt_tokens, completion_tokens) pairs a response reports.
Usages == {<<10, 5>>, <<3, 2>>, <<0, 1>>}

(* Python floats.  A cost is n * 2^-72 dollars for a natural n, which is     *)
(* kept as five digits in base 2^15, the least significant first: every     *)
(* rate of COST_RATES is such a number, and so are the products and sums    *)
(* of lines 45-47.  json.dump writes the shortest decimal that json.load    *)
(* reads back as the same float, so the file keeps the value as it is.      *)

Limb == 2^15

LimbIndex == 1..5

\* 0, and 0.0.
FloatZero == [i \in LimbIndex |-> 0]

\* a + b, exactly.
NatPlus(a, b) ==
    LET carry[i \in 0..5] ==
            IF i = 0 THEN 0 ELSE (a[i] + b[i] + carry[i - 1]) \div Limb
    IN  [i \in LimbIndex |-> (a[i] + b[i] + carry[i - 1]) % Limb]

\* a - b, exactly, for a >= b.
NatMinus(a, b) ==
    LET borrow[i \in 0..5] ==
            IF i = 0 THEN 0
            ELSE IF a[i] - b[i] - borrow[i - 1] < 0 THEN 1 ELSE 0
    IN  [i \in LimbIndex |-> (a[i] - b[i] - borrow[i - 1] + Limb) % Limb]

\* a * k, exactly, for a natural k below 2^15.
NatTimes(a, k) ==
    LET carry[i \in 0..5] ==
            IF i = 0 THEN 0 ELSE (a[i] * k + carry[i - 1]) \div Limb
    IN  [i \in LimbIndex |-> (a[i] * k + carry[i - 1]) % Limb]

\* a < b.
NatLess(a, b) ==
    \E i \in LimbIndex :
        a[i] < b[i] /\ \A j \in LimbIndex : j > i => a[j] = b[j]

\* The number of significant bits of a.
BitLength(a) ==
    IF a = FloatZero THEN 0
    ELSE LET h == CHOOSE i \in LimbIndex :
                    a[i] # 0 /\ \A j \in LimbIndex : j > i => a[j] = 0
         IN  15 * (h - 1)
                + (CHOOSE k \in 1..15 : 2^(k - 1) <= a[h] /\ a[h] < 2^k)

\* 2^q.
TwoTo(q) ==
    [i \in LimbIndex |-> IF i = (q \div 15) + 1 THEN 2^(q % 15) ELSE 0]

\* a modulo 2^q.
LowBits(a, q) ==
    [i \in LimbIndex |->
        IF i < (q \div 15) + 1 THEN a[i]
        ELSE IF i = (q \div 15) + 1 THEN a[i] % 2^(q % 15)
        ELSE 0]

\* The float nearest to a: a rounded to 53 significant bits, a tie going to
\* the even neighbour.
RoundToFloat(a) ==
    LET q == BitLength(a) - 53
    IN  IF q <= 0 THEN a
        ELSE LET low == LowBits(a, q)
                 down == NatMinus(a, low)
                 odd == (a[(q \div 15) + 1] \div 2^(q % 15)) % 2 = 1
             IN  IF NatLess(TwoTo(q - 1), low) \/ (low = TwoTo(q - 1) /\ odd)
                 THEN NatPlus(down, TwoTo(q))
                 ELSE down

\* x + y of two floats.
FloatPlus(x, y) == RoundToFloat(NatPlus(x, y))

\* k * x of an int and a float.
FloatTimes(k, x) == RoundToFloat(NatTimes(x, k))

\* COST_RATES as the class body sets it (lines 12-16).  The quotients are
\* floats: 0.0045 / 1000 is 0x1.2dfd694ccab3ep-18, 0.0135 / 1000 is
\* 0x1.c4fc1df3300dep-17, 0.0018 / 1000 is 0x1.e32f0ee144531p-20,
\* 0.0027 / 1000 is 0x1.6a634b28f33e5p-19 and 0.0036 / 1000 is
\* 0x1.e32f0ee144531p-19.
InitialCostRates ==
    [m \in {"gpt-4o", "gpt-35-turbo", "gpt-35-turbo-16k"} |->
        CASE m = "gpt-4o" ->
                [prompt_token_cost |-> <<11512, 9829, 32105, 603, 0>>,
                 completion_token_cost |-> <<1776, 29488, 30779, 1811, 0>>]
          [] m = "gpt-35-turbo" ->
                [prompt_token_cost |-> <<17713, 23592, 19395, 241, 0>>,
                 completion_token_cost |-> <<17713, 23592, 19395, 241, 0>>]
          [] m = "gpt-35-turbo-16k" ->
                [prompt_token_cost |-> <<26570, 19004, 12709, 362, 0>>,
                 completion_token_cost |-> <<2658, 14417, 6023, 483, 0>>]]

NoTokens == [m \in {} |-> [prompt_tokens |-> 0, completion_tokens |-> 0]]

\* `tokens_usage = {}` (line 34): no model, and no overall_cost, which
\* .get("overall_cost", 0) reads as 0.
EmptyUsage == [tokens |-> NoTokens, overall_cost |-> FloatZero]

\* The usage file: whether it exists, whether json.load can parse it, and the
\* document it holds.
AbsentFile == [exists |-> FALSE, parses |-> TRUE, doc |-> EmptyUsage]

\* The file as open(..., 'w') leaves it when the dump after it does not happen:
\* truncated, which json.load rejects.
TruncatedFile == [exists |-> TRUE, parses |-> FALSE, doc |-> EmptyUsage]

\* Lines 30-34: the document of the file, or the empty one.
LoadUsage(file) == IF file.exists THEN file.doc ELSE EmptyUsage

\* Line 37 as a plain assignment of the zero entry.
SetDefault_Resets(tokens, model_name) ==
    [m \in DOMAIN tokens \cup {model_name} |->
        IF m # model_name THEN tokens[m]
        ELSE [prompt_tokens |-> 0, completion_tokens |-> 0]]

\* Line 37: setdefault adds a zero entry for a model the document lacks.
SetDefault(tokens, model_name) ==
    [m \in DOMAIN tokens \cup {model_name} |->
        IF m \in DOMAIN tokens THEN tokens[m]
        ELSE [prompt_tokens |-> 0, completion_tokens |-> 0]]

\* The update assigning the increments instead of adding them.
AddTokens_Assign(tokens, model_name, prompt_tokens, completion_tokens) ==
    [SetDefault(tokens, model_name) EXCEPT
        ![model_name] = [prompt_tokens |-> prompt_tokens,
                         completion_tokens |-> completion_tokens]]

\* Lines 37-39.
AddTokens(tokens, model_name, prompt_tokens, completion_tokens) ==
    [SetDefault(tokens, model_name) EXCEPT
        ![model_name] = [prompt_tokens |-> @.prompt_tokens + prompt_tokens,
                         completion_tokens |->
                            @.completion_tokens + completion_tokens]]

\* Lines 42-44: a model without rates gets zero rates, in the class attribute.
EnsureRates(rates, model_name) ==
    IF model_name \in DOMAIN rates THEN rates
    ELSE [m \in DOMAIN rates \cup {model_name} |->
            IF m = model_name
            THEN [prompt_token_cost |-> FloatZero,
                  completion_token_cost |-> FloatZero]
            ELSE rates[m]]

\* The completion tokens charged at the prompt rate.
AddCost_PromptRateTwice(overall_cost, rates, model_name, prompt_tokens, completion_tokens) ==
    FloatPlus(FloatPlus(overall_cost,
                        FloatTimes(prompt_tokens,
                                   rates[model_name].prompt_token_cost)),
              FloatTimes(completion_tokens,
                         rates[model_name].prompt_token_cost))

\* Lines 45-47: the cost of this update's tokens, added to overall_cost.
AddCost(overall_cost, rates, model_name, prompt_tokens, completion_tokens) ==
    FloatPlus(FloatPlus(overall_cost,
                        FloatTimes(prompt_tokens,
                                   rates[model_name].prompt_token_cost)),
              FloatTimes(completion_tokens,
                         rates[model_name].completion_token_cost))

\* Lines 36-47 on the loaded document.
UpdatedUsage(doc, rates, model_name, prompt_tokens, completion_tokens) ==
    [tokens |-> AddTokens(doc.tokens, model_name, prompt_tokens,
                          completion_tokens),
     overall_cost |-> AddCost(doc.overall_cost, EnsureRates(rates, model_name),
                              model_name, prompt_tokens, completion_tokens)]

\* The sums in `passed` after one more call.
Passed(sums, model_name, prompt_tokens, completion_tokens) ==
    [sums EXCEPT ![model_name] =
        [prompt_tokens |-> @.prompt_tokens + prompt_tokens,
         completion_tokens |-> @.completion_tokens + completion_tokens]]

\* update_tokens_usage run from start to end by the only thread there is:
\* what it does to the tracker.
TrackerUpdate(model_name, prompt_tokens, completion_tokens) ==
    /\ lock = None
    /\ \A t \in Threads : tpc[t] = "idle"
    /\ nUpdates' = nUpdates + 1
    /\ passed' = Passed(passed, model_name, prompt_tokens, completion_tokens)
    /\ costRates' = EnsureRates(costRates, model_name)
    /\ usageFile.parses
    /\ usageFile' = [exists |-> TRUE, parses |-> TRUE,
                     doc |-> UpdatedUsage(LoadUsage(usageFile), costRates,
                                          model_name, prompt_tokens,
                                          completion_tokens)]
    /\ UNCHANGED <<lock, tpc, targs, tdoc>>

\* A direct call of update_tokens_usage.
UpdateTokensUsage(model_name, prompt_tokens, completion_tokens) ==
    /\ nUpdates < MaxUpdates
    /\ TrackerUpdate(model_name, prompt_tokens, completion_tokens)
    /\ UNCHANGED <<factoryVars, retryVars, serviceVars>>

(* The same method, statement by statement, for threads that share the class. *)

NoUpdateArgs == [model_name |-> None, prompt_tokens |-> 0, completion_tokens |-> 0]

\* A thread enters update_tokens_usage.
CallUpdate(t, model_name, prompt_tokens, completion_tokens) ==
    /\ tpc[t] = "idle"
    /\ nUpdates < MaxUpdates
    /\ nUpdates' = nUpdates + 1
    /\ passed' = Passed(passed, model_name, prompt_tokens, completion_tokens)
    /\ targs' = [targs EXCEPT ![t] = [model_name |-> model_name,
                                      prompt_tokens |-> prompt_tokens,
                                      completion_tokens |-> completion_tokens]]
    /\ tpc' = [tpc EXCEPT ![t] = "acquire"]
    /\ UNCHANGED <<usageFile, costRates, lock, tdoc>>
    /\ UNCHANGED <<factoryVars, retryVars, serviceVars>>

\* An acquire that does not wait for the lock.
CanAcquire_NoWait(t) == TRUE

\* Lock.acquire() blocks while another thread holds the lock.
CanAcquire(t) == lock = None

\* Line 27.
Acquire(t) ==
    /\ tpc[t] = "acquire"
    /\ CanAcquire(t)
    /\ lock' = t
    /\ tpc' = [tpc EXCEPT ![t] = "load"]
    /\ UNCHANGED <<usageFile, costRates, passed, nUpdates, targs, tdoc>>
    /\ UNCHANGED <<factoryVars, retryVars, serviceVars>>

\* Lines 30-34, when they do not raise.
Load(t) ==
    /\ tpc[t] = "load"
    /\ usageFile.parses
    /\ tdoc' = [tdoc EXCEPT ![t] = LoadUsage(usageFile)]
    /\ tpc' = [tpc EXCEPT ![t] = "save"]
    /\ UNCHANGED <<usageFile, costRates, lock, passed, nUpdates, targs>>
    /\ UNCHANGED <<factoryVars, retryVars, serviceVars>>

\* Lines 36-51: the update in memory, then the whole document written back.
Save(t) ==
    /\ tpc[t] = "save"
    /\ costRates' = EnsureRates(costRates, targs[t].model_name)
    /\ tdoc' = [tdoc EXCEPT ![t] =
                    UpdatedUsage(tdoc[t], costRates, targs[t].model_name,
                                 targs[t].prompt_tokens,
                                 targs[t].completion_tokens)]
    /\ usageFile' = [exists |-> TRUE, parses |-> TRUE, doc |-> tdoc'[t]]
    /\ tpc' = [tpc EXCEPT ![t] = "release"]
    /\ UNCHANGED <<lock, passed, nUpdates, targs>>
    /\ UNCHANGED <<factoryVars, retryVars, serviceVars>>

\* An exception in the try block that leaves the method at once, the lock
\* still held.
AfterRaise_NoFinally == "idle"

\* Lines 28 and 52: the statements that can raise are inside the try block, so
\* an exception in them is followed by the finally clause, the exception
\* pending.
AfterRaise == "raising"

\* Lines 31-32 raise: the file cannot be opened or read, or json.load rejects
\* what it holds, which it always does for a file that does not parse.
LoadRaises(t) ==
    /\ tpc[t] = "load"
    /\ usageFile.exists
    /\ tpc' = [tpc EXCEPT ![t] = AfterRaise]
    /\ UNCHANGED <<usageFile, costRates, lock, passed, nUpdates, targs, tdoc>>
    /\ UNCHANGED <<factoryVars, retryVars, serviceVars>>

\* Lines 50-51 raise, after lines 36-47 changed the rates: open(..., 'w')
\* fails and the file is as it was, or the write fails after the open
\* truncated the file.
SaveRaises(t) ==
    /\ tpc[t] = "save"
    /\ costRates' = EnsureRates(costRates, targs[t].model_name)
    /\ usageFile' \in {usageFile, TruncatedFile}
    /\ tpc' = [tpc EXCEPT ![t] = AfterRaise]
    /\ UNCHANGED <<lock, passed, nUpdates, targs, tdoc>>
    /\ UNCHANGED <<factoryVars, retryVars, serviceVars>>

\* Lines 52-53, and the return or the exception leaving the method.
Release(t) ==
    /\ tpc[t] \in {"release", "raising"}
    /\ lock' = None
    /\ tpc' = [tpc EXCEPT ![t] = "idle"]
    /\ tdoc' = [tdoc EXCEPT ![t] = EmptyUsage]
    /\ targs' = [targs EXCEPT ![t] = NoUpdateArgs]
    /\ UNCHANGED <<usageFile, costRates, passed, nUpdates>>
    /\ UNCHANGED <<factoryVars, retryVars, serviceVars>>

\* The tracker of a new process: no usage file, the lock free, no call made.
TrackerIdle ==
    /\ usageFile = AbsentFile
    /\ costRates = InitialCostRates
    /\ lock = None
    /\ passed = [m \in TrackedModels |->
                    [prompt_tokens |-> 0, completion_tokens |-> 0]]
    /\ nUpdates = 0
    /\ tpc = [t \in Threads |-> "idle"]
    /\ targs = [t \in Threads |-> NoUpdateArgs]
    /\ tdoc = [t \in Threads |-> EmptyUsage]

------------------------------------------------------------------------------
(* azure_openai_service.py, huggingface_service.py: the four operations *)

\* retry_request's defaults, which every operation uses (retry_logic.py:3).
DefaultRetries == 3

DefaultWaitTime == 5

\* Service objects as the factory builds them: an Azure deployment with vision,
\* one without, and a HuggingFace model.
ServiceObjects ==
    { [class |-> "AzureOpenAIService", model_name |-> "gpt-4o",
       temperature |-> 0, max_tokens |-> 1],
      [class |-> "AzureOpenAIService", model_name |-> "gpt-35-turbo",
       temperature |-> 0, max_tokens |-> 1],
      [class |-> "HuggingFaceService", model_name |-> "zephyr",
       temperature |-> 0, max_tokens |-> 1] }

NoService == [class |-> None, model_name |-> None, temperature |-> 0,
              max_tokens |-> 1]

OperationNames == {"make_request", "make_request_json",
                   "make_request_with_tools", "make_request_image"}

\* A message: its role and its content, a text (as its words) with the image
\* attached to it, if any.
Message(role, words) ==
    [role |-> role, content |-> [text |-> words, image |-> ""]]

MessageLists ==
    { <<Message("system", <<"Reply", "in", "JSON">>),
        Message("user", <<"Describe", "it">>)>>,
      <<Message("system", <<"Be", "brief">>),
        Message("assistant", <<"Describe", "it">>)>> }

\* A tool: its name and, per parameter, the parameter's schema; a schema has
\* an 'enum' entry or not.
Param(hasEnum, enum) == [type |-> "string", hasEnum |-> hasEnum, enum |-> enum]

Tool(name, properties) == [name |-> name, properties |-> properties]

ToolLists ==
    { <<Tool("get_delivery_date",
             [q \in {"order_id"} |-> Param(FALSE, << >>)])>>,
      <<Tool("convert",
             [q \in {"unit", "mode"} |->
                 IF q = "unit" THEN Param(TRUE, << >>)
                 ELSE Param(TRUE, <<"fast", "exact">>)])>> }

ImagePaths == {"cat.jpg", "missing.jpg"}

\* The image files that exist.
ExistingFiles == {"cat.jpg"}

\* What the provider answers: message.content, message.tool_calls and usage.
ToolCallValues ==
    {PyNone, PyList(<< >>), PyList(<<"call1">>), PyList(<<"call1", "call2">>)}

Responses(name) ==
    [content : {PyStr("text"), PyNone},
     tool_calls : IF name = "make_request_with_tools" THEN ToolCallValues
                  ELSE {PyNone},
     usage : {<<10, 5>>, <<3, 2>>}]

NoResponse == [content |-> PyNone, tool_calls |-> PyNone, usage |-> <<0, 0>>]

NoOp == [name |-> None, parallel_tool_calls |-> FALSE,
         return_only_tool_response |-> FALSE, image_path |-> "",
         status |-> "none", error |-> None, response |-> NoResponse,
         messagesBefore |-> << >>, toolsBefore |-> << >>,
         usageBefore |-> AbsentFile, updatesBefore |-> 0]

\* The result that ignores return_only_tool_response.
AzureToolsResult_IgnoresFlag(response, return_only_tool_response) ==
    IF ~Truthy(response.tool_calls) THEN response.content
    ELSE response.tool_calls

\* AzureOpenAIService.make_request_with_tools, lines 82-90.
AzureToolsResult(response, return_only_tool_response) ==
    IF return_only_tool_response
    THEN response.tool_calls
    ELSE IF ~Truthy(response.tool_calls)
         THEN response.content
         ELSE response.tool_calls

\* HuggingFaceService.make_request_with_tools, lines 83-95, with its repeated
\* inner test.
HuggingFaceToolsResult(response, return_only_tool_response) ==
    IF return_only_tool_response
    THEN response.tool_calls
    ELSE IF ~Truthy(response.tool_calls)
         THEN response.content
         ELSE IF ~Truthy(response.tool_calls)
              THEN response.content
              ELSE response.tool_calls

\* What api_call returns for a response (each operation's return statement).
ApiCallResult(s, o, response) ==
    IF o.name = "make_request_with_tools"
    THEN IF s.class = "AzureOpenAIService"
         THEN AzureToolsResult(response, o.return_only_tool_response)
         ELSE HuggingFaceToolsResult(response, o.return_only_tool_response)
    ELSE response.content

\* The allow-list with a model too many.
SupportsVision_Everything(model_name) ==
    model_name \in {"gpt-4o", "gpt-4o-mini", "gpt-4-turbo", "gpt-35-turbo"}

\* azure_openai_service.py line 100, negated.
SupportsVision(model_name) ==
    model_name \in {"gpt-4o", "gpt-4o-mini", "gpt-4-turbo"}

\* `word in content`, for a content kept as its words.
Contains(content, word) ==
    \E i \in 1..Len(content.text) : content.text[i] = word

\* azure_openai_service.py line 52: `not ("JSON" or "json" in content)`; the
\* `or` yields its left operand when that is true, and "JSON" is.
JsonInstructionMissing(content) ==
    ~(IF Truthy(PyStr("JSON")) THEN TRUE ELSE Contains(content, "json"))

\* Line 53: the instruction appended to the first message's content.
WithJsonInstruction(msgs) ==
    [msgs EXCEPT ![1].content.text =
        @ \o <<"Your", "task", "is", "to", "return", "the", "response", "in",
               "JSON", "format.">>]

\* azure_openai_service.py lines 107-109: the last message replaced by a user
\* message holding the old text and the encoded image.
WithImage(msgs, image_path) ==
    [msgs EXCEPT ![Len(msgs)] =
        [role |-> "user",
         content |-> [text |-> msgs[Len(msgs)].content.text,
                      image |-> image_path]]]

\* huggingface_service.py lines 67-71: every empty 'enum' deleted.
StripEmptyEnums(tls) ==
    [i \in 1..Len(tls) |->
        [tls[i] EXCEPT !.properties =
            [q \in DOMAIN tls[i].properties |->
                IF tls[i].properties[q].hasEnum
                   /\ tls[i].properties[q].enum = << >>
                THEN Param(FALSE, << >>)
                ELSE tls[i].properties[q]]]]

\* The guard of lines 63-64 left out: parallel tool calls go to the provider.
RejectsParallel_Never(s, parallel) == FALSE

\* huggingface_service.py lines 63-64: the first statement of
\* make_request_with_tools raises on parallel_tool_calls; the Azure method has
\* no such test.
RejectsParallel(s, parallel) == s.class = "HuggingFaceService" /\ parallel

\* The operation ends before retry_request is entered, raising `error`.
RaiseEarly(o, error) ==
    /\ op' = [o EXCEPT !.status = "raised", !.error = error]
    /\ UNCHANGED retryVars

\* The operation reaches `return retry_request(api_call)`.
EnterApiCall(o) ==
    /\ op' = [o EXCEPT !.status = "running"]
    /\ EnterRetry(DefaultRetries, DefaultWaitTime)

\* The caller calls operation `name` of service s; everything up to the first
\* pass of retry_request's loop happens here.
CallOperation(s, name, msgs, tls, parallel, only, image_path) ==
    LET o == [NoOp EXCEPT !.name = name, !.parallel_tool_calls = parallel,
                          !.return_only_tool_response = only,
                          !.image_path = image_path,
                          !.messagesBefore = msgs, !.toolsBefore = tls,
                          !.usageBefore = usageFile,
                          !.updatesBefore = nUpdates]
    IN
    /\ op.status = "none"
    /\ nOps < MaxOps
    /\ nOps' = nOps + 1
    /\ svc' = s
    /\ remoteCalls' = 0
    /\ sent' = << >>
    /\ UNCHANGED <<factoryVars, trackerVars>>
    /\ CASE name = "make_request" ->
              /\ messages' = msgs /\ tools' = tls /\ filesRead' = << >>
              /\ EnterApiCall(o)
         [] name = "make_request_json" ->
              /\ tools' = tls /\ filesRead' = << >>
              /\ messages' = IF s.class = "AzureOpenAIService"
                                /\ JsonInstructionMissing(msgs[1].content)
                             THEN WithJsonInstruction(msgs)
                             ELSE msgs
              /\ EnterApiCall(o)
         [] name = "make_request_with_tools" ->
              /\ messages' = msgs /\ filesRead' = << >>
              /\ IF RejectsParallel(s, parallel)
                 THEN /\ tools' = tls
                      /\ RaiseEarly(o, "ValueError:parallel_tool_calls")
                 ELSE /\ tools' = IF s.class = "HuggingFaceService"
                                  THEN StripEmptyEnums(tls) ELSE tls
                      /\ EnterApiCall(o)
         [] name = "make_request_image" ->
              /\ tools' = tls
              /\ IF s.class = "HuggingFaceService"
                 THEN /\ messages' = msgs /\ filesRead' = << >>
                      /\ RaiseEarly(o, "NotImplementedError")
                 ELSE IF ~SupportsVision(s.model_name)
                 THEN /\ messages' = msgs /\ filesRead' = << >>
                      /\ RaiseEarly(o, "ValueError:vision")
                 ELSE IF image_path \notin ExistingFiles
                 THEN /\ messages' = msgs /\ filesRead' = <<image_path>>
                      /\ RaiseEarly(o, "FileNotFoundError")
                 ELSE /\ messages' = WithImage(msgs, image_path)
                      /\ filesRead' = <<image_path>>
                      /\ EnterApiCall(o)

\* The enums stripped again, whatever they hold, when the request is built.
RequestTools_NoEnums(tls) ==
    [i \in 1..Len(tls) |->
        [tls[i] EXCEPT !.properties =
            [q \in DOMAIN tls[i].properties |-> Param(FALSE, << >>)]]]

\* `tools=tools` in api_call (huggingface_service.py line 78,
\* azure_openai_service.py line 76): the request carries the list the
\* enclosing method holds, as it is when the attempt is made.
RequestTools(tls) == tls

\* The usage reported with prompt and completion counts exchanged.
UsageArgs_Swapped(s, response) ==
    <<s.model_name, response.usage[2], response.usage[1]>>

\* The arguments api_call passes to update_tokens_usage (azure_openai_service.py
\* lines 40, 64, 80, 118; huggingface_service.py lines 37, 55, 81).
UsageArgs(s, response) ==
    <<s.model_name, response.usage[1], response.usage[2]>>

\* api_call: the provider answers, the usage is recorded, the result returned.
ApiCallReturns(response) ==
    /\ op.status = "running"
    /\ remoteCalls' = remoteCalls + 1
    /\ sent' = Append(sent, RequestTools(tools))
    /\ TrackerUpdate(UsageArgs(svc, response)[1], UsageArgs(svc, response)[2],
                     UsageArgs(svc, response)[3])
    /\ FuncReturned(ApiCallResult(svc, op, response))
    /\ op' = [op EXCEPT !.status = "returned", !.response = response]
    /\ UNCHANGED <<svc, messages, tools, filesRead, nOps>>
    /\ UNCHANGED factoryVars

\* api_call: the request to the provider raises e.
ApiCallRaises(e) ==
    /\ op.status = "running"
    /\ remoteCalls' = remoteCalls + 1
    /\ sent' = Append(sent, RequestTools(tools))
    /\ FuncRaised(e)
    /\ op' = IF rpc' = "raised"
             THEN [op EXCEPT !.status = "raised", !.error = "RuntimeError"]
             ELSE op
    /\ UNCHANGED <<svc, messages, tools, filesRead, nOps>>
    /\ UNCHANGED <<factoryVars, trackerVars>>

\* The caller has its result or its exception; the call's frames are gone.
OperationDone ==
    /\ op.status \in {"returned", "raised"}
    /\ op' = NoOp
    /\ svc' = NoService
    /\ messages' = << >>
    /\ tools' = << >>
    /\ remoteCalls' = 0
    /\ sent' = << >>
    /\ filesRead' = << >>
    /\ rpc' = "idle"
    /\ retries' = 0
    /\ wait_time' = 0
    /\ attempt' = 0
    /\ calls' = << >>
    /\ result' = PyNone
    /\ raised' = << >>
    /\ sleeps' = << >>
    /\ UNCHANGED nOps
    /\ UNCHANGED <<factoryVars, trackerVars>>

\* No operation called yet.
ServiceIdle ==
    /\ svc = NoService
    /\ op = NoOp
    /\ messages = << >>
    /\ tools = << >>
    /\ remoteCalls = 0
    /\ sent = << >>
    /\ filesRead = << >>
    /\ nOps = 0

------------------------------------------------------------------------------
(* Specifications *)

\* retry_request before it is called.
RetryIdle ==
    /\ rpc = "idle"
    /\ retries = 0
    /\ wait_time = 0
    /\ attempt = 0
    /\ calls = << >>
    /\ result = PyNone
    /\ raised = << >>
    /\ sleeps = << >>

\* The factory before any call, with every credential in the environment.
FactoryIdle ==
    /\ services = << >>
    /\ instances = << >>
    /\ env = [azure |-> TRUE, huggingface |-> TRUE, openai |-> TRUE]
    /\ lastCall = NoCall
    /\ callers = [t \in Threads |-> NoCaller]

InitFactory ==
    /\ services = << >>
    /\ instances = << >>
    /\ env \in [azure : BOOLEAN, huggingface : BOOLEAN, openai : BOOLEAN]
    /\ lastCall = NoCall
    /\ callers = [t \in Threads |-> NoCaller]
    /\ RetryIdle
    /\ TrackerIdle
    /\ ServiceIdle

NextFactory ==
    \E m \in ModelNames, p \in Providers, t \in Temperatures, mt \in MaxTokens :
        GetService(m, p, t, mt)

SpecFactory == InitFactory /\ [][NextFactory]_vars

\* The same calls with float temperatures, float("nan") among them.  Every
\* call passes the one object math.nan, so that a key holding it is found
\* again by the membership test of line 17.
NextFactoryFloats ==
    \E m \in ModelNames, p \in Providers, t \in FloatTemperatures,
       mt \in MaxTokens : GetService(m, p, t, mt)

SpecFactoryFloats == InitFactory /\ [][NextFactoryFloats]_vars

\* Concurrent use of the factory: each thread makes one call.
NextFactoryThreads ==
    \E t \in Threads :
        \/ \E m \in ModelNames, p \in Providers, temp \in Temperatures,
              mt \in MaxTokens : CallGetService(t, m, p, temp, mt)
        \/ ConstructInstance(t)
        \/ StoreInstance(t)
        \/ ReturnService(t)

SpecFactoryThreads == InitFactory /\ [][NextFactoryThreads]_vars

InitRetry == RetryIdle /\ FactoryIdle /\ TrackerIdle /\ ServiceIdle

NextRetry ==
    \/ \E n \in RetriesValues, w \in WaitTimes : RetryRequest(n, w)
    \/ \E v \in Results : AttemptReturns(v)
    \/ \E e \in Errors : AttemptRaises(e)

SpecRetry == InitRetry /\ [][NextRetry]_vars

InitTracker == TrackerIdle /\ FactoryIdle /\ RetryIdle /\ ServiceIdle

\* Sequential use: one call after the other.
NextTracker ==
    \E m \in TrackedModels, u \in Usages : UpdateTokensUsage(m, u[1], u[2])

SpecTracker == InitTracker /\ [][NextTracker]_vars

\* Concurrent use by the threads of one process.
NextTrackerThreads ==
    \E t \in Threads :
        \/ \E m \in TrackedModels, u \in Usages : CallUpdate(t, m, u[1], u[2])
        \/ Acquire(t)
        \/ Load(t)
        \/ Save(t)
        \/ Release(t)

SpecTrackerThreads == InitTracker /\ [][NextTrackerThreads]_vars

\* The models of the updates that may raise: one with a rate, one without.
FaultModels == {"gpt-4o", "zephyr"}

\* Concurrent use where reading and writing the file may raise.
NextTrackerFaults ==
    \E t \in Threads :
        \/ \E m \in FaultModels : CallUpdate(t, m, 3, 2)
        \/ Acquire(t)
        \/ Load(t)
        \/ LoadRaises(t)
        \/ SaveRaises(t)
        \/ Save(t)
        \/ Release(t)

\* Fair scheduling: a thread inside the method keeps running, and a thread
\* waiting in acquire() gets the lock if the lock is free again and again.
FairThreads ==
    \A t \in Threads :
        /\ SF_vars(Acquire(t))
        /\ WF_vars(Load(t) \/ LoadRaises(t))
        /\ WF_vars(SaveRaises(t) \/ Save(t))
        /\ WF_vars(Release(t))

SpecTrackerFaults ==
    InitTracker /\ [][NextTrackerFaults]_vars /\ FairThreads

InitService == ServiceIdle /\ FactoryIdle /\ RetryIdle /\ TrackerIdle

\* The operations of the service objects, called one after the other.
NextService ==
    \/ \E s \in ServiceObjects, msgs \in MessageLists :
            CallOperation(s, "make_request", msgs, << >>, FALSE, FALSE, "")
    \/ \E s \in ServiceObjects, msgs \in MessageLists :
            CallOperation(s, "make_request_json", msgs, << >>, FALSE, FALSE, "")
    \/ \E s \in ServiceObjects, msgs \in MessageLists, tls \in ToolLists,
          parallel \in BOOLEAN, only \in BOOLEAN :
            CallOperation(s, "make_request_with_tools", msgs, tls, parallel,
                          only, "")
    \/ \E s \in ServiceObjects, msgs \in MessageLists, path \in ImagePaths :
            CallOperation(s, "make_request_image", msgs, << >>, FALSE, FALSE,
                          path)
    \/ \E response \in Responses(op.name) : ApiCallReturns(response)
    \/ \E e \in Errors : ApiCallRaises(e)
    \/ OperationDone

SpecService == InitService /\ [][NextService]_vars

------------------------------------------------------------------------------
(* The factory's claims *)

\* This step is a get_service call with the arguments k (which the call
\* leaves in lastCall.args).
Called(k) == GetService(k[1], k[2], k[3], k[4])

\* The ids the registry maps some key to.
CachedIds == {services[k] : k \in DOMAIN services}

\* The service objects that were constructed for the arguments of `key`.
BuiltFor(key) ==
    {i \in DOMAIN instances :
        /\ instances[i].model_name = key[1]
        /\ instances[i].temperature = key[3]
        /\ instances[i].max_tokens = key[4]
        /\ \/ key[2] = "AzureOpenAI" /\ instances[i].class = "AzureOpenAIService"
           \/ key[2] = "HuggingFace" /\ instances[i].class = "HuggingFaceService"
           \/ key[2] = "OpenAI" /\ instances[i].class = "OpenAIService"}

\* C1: in single-threaded use, at most one service object is ever constructed
\* for a key; a cached key is never evicted or remapped; and every call for a
\* cached key returns the cached instance without entering a constructor.
C1_SameKeySameInstance ==
    /\ [](\A k \in Keys : Cardinality(BuiltFor(k)) <= 1)
    /\ [][\A k \in DOMAIN services :
            /\ k \in DOMAIN services'
            /\ services'[k] = services[k]
            /\ Called(k) =>
                  /\ lastCall'.outcome = "returned"
                  /\ lastCall'.ret = services[k]
                  /\ lastCall'.ctor = None
                  /\ instances' = instances]_vars

\* C1's case: a second call for a key that is already cached has returned.
C1_Witness ==
    /\ lastCall.args \in DOMAIN services
    /\ lastCall.outcome = "returned"
    /\ lastCall.ctor = None
    /\ lastCall.ret = services[lastCall.args]

\* Two keys differ in exactly one of their four fields.
DifferInOneField(j, k) == Cardinality({f \in 1..4 : j[f] # k[f]}) = 1

\* C2: a successful call for an uncached key that differs from a cached key in
\* one field constructs a fresh instance, distinct from every cached one, and
\* caches it under the new key; whatever the call's outcome, every previously
\* cached key keeps its instance.
C2_DifferentKeySecondInstance ==
    [][\A k \in {lastCall'.args} \cap Keys :
         (/\ Called(k)
          /\ k \notin DOMAIN services
          /\ \E j \in DOMAIN services : DifferInOneField(j, k))
         => /\ \A j \in DOMAIN services :
                  j \in DOMAIN services' /\ services'[j] = services[j]
            /\ lastCall'.outcome = "returned" =>
                  /\ lastCall'.ret \notin CachedIds
                  /\ lastCall'.ret \notin DOMAIN instances
                  /\ DOMAIN instances' = DOMAIN instances \cup {lastCall'.ret}
                  /\ k \in DOMAIN services'
                  /\ services'[k] = lastCall'.ret
                  /\ instances'[lastCall'.ret].temperature = k[3]
                  /\ instances'[lastCall'.ret].max_tokens = k[4]
                  /\ instances'[lastCall'.ret].model_name = k[1]]_vars

\* C2's case: two keys that differ only in temperature are cached, to two
\* different instances, the second one by the last call.
C2_Witness ==
    \E j \in DOMAIN services :
        /\ lastCall.args \in DOMAIN services
        /\ lastCall.ctor # None
        /\ j[1] = lastCall.args[1] /\ j[2] = lastCall.args[2]
        /\ j[4] = lastCall.args[4] /\ j[3] # lastCall.args[3]
        /\ services[j] # services[lastCall.args]

\* C3: a call for an uncached key with an unrecognized provider name ends in
\* the unsupported-provider error, returns no instance and enters no
\* constructor; with a recognized name it enters that provider's constructor.
C3_ProviderDispatch ==
    [][\A k \in {lastCall'.args} \cap Keys :
         (Called(k) /\ k \notin DOMAIN services)
         => /\ k[2] \notin {"AzureOpenAI", "HuggingFace", "OpenAI"} =>
                  /\ lastCall'.outcome = "ValueError:provider"
                  /\ lastCall'.ret = NoInstance
                  /\ lastCall'.ctor = None
                  /\ services' = services /\ instances' = instances
            /\ k[2] = "AzureOpenAI" => lastCall'.ctor = "AzureOpenAIService"
            /\ k[2] = "HuggingFace" => lastCall'.ctor = "HuggingFaceService"
            /\ k[2] = "OpenAI" => lastCall'.ctor = "OpenAIService"
            /\ lastCall'.outcome = "returned" =>
                  instances'[lastCall'.ret].class = lastCall'.ctor]_vars

\* C3's case: with instances already cached, a call named an unknown provider.
C3_Witness ==
    /\ lastCall.args # NoArgs
    /\ lastCall.args[2] = "Anthropic"
    /\ lastCall.outcome = "ValueError:provider"
    /\ services # << >>

\* The arguments the shared validation must reject.
InvalidConfig(k) == k[3] < 0 \/ k[3] > 20 \/ k[4] < 1

\* C4: for every provider, a construction with temperature outside [0, 2] or
\* max_tokens below 1 ends in a configuration error before initialize_client
\* has run: no environment read, no network call, nothing cached.
C4_ValidationBeforeInit ==
    /\ \A k \in DOMAIN services : ~InvalidConfig(k)
    /\ (/\ lastCall.args # NoArgs
        /\ lastCall.args[2] \in SupportedProviders
        /\ InvalidConfig(lastCall.args))
       => /\ lastCall.ctor # None
          /\ lastCall.outcome \in {"ValueError:temperature", "ValueError:max_tokens"}
          /\ lastCall.ret = NoInstance
          /\ ~lastCall.initRan
          /\ ~lastCall.envRead
          /\ ~lastCall.netCall

\* C4's case: a HuggingFace construction for a deployed model was rejected for
\* its temperature; the model lookup was not made.
C4_Witness ==
    /\ lastCall.args # NoArgs
    /\ lastCall.args[1] \in DeployedModels
    /\ lastCall.args[2] = "HuggingFace"
    /\ lastCall.args[3] < 0
    /\ lastCall.ctor = "HuggingFaceService"
    /\ lastCall.outcome = "ValueError:temperature"
    /\ ~lastCall.netCall

------------------------------------------------------------------------------
(* The retry wrapper's claims *)

\* Every func() invocation so far has raised.
AllFailed == \A i \in 1..Len(calls) : ~calls[i].ok

\* C5: while every attempt so far has failed and fewer than `retries` attempts
\* were made, retry_request goes on to another attempt; an attempt that
\* succeeds is the last invocation of func, and retry_request has returned that
\* attempt's value: func was invoked exactly k times for a success on attempt k.
C5_RetryUntilSuccess ==
    /\ (rpc # "idle" /\ AllFailed /\ Len(calls) < retries) =>
            rpc = "loop" /\ attempt = Len(calls)
    /\ \A k \in 1..Len(calls) :
          calls[k].ok => /\ k = Len(calls)
                         /\ k <= retries
                         /\ rpc = "returned"
                         /\ result = calls[k].val
                         /\ raised = << >>

\* C5's case: two failures, then a success on the third of three attempts.
C5_Witness ==
    /\ retries = 3
    /\ Len(calls) = 3
    /\ ~calls[1].ok /\ ~calls[2].ok /\ calls[3].ok
    /\ rpc = "returned"
    /\ result = calls[3].val
    /\ result = PyStr("text")

\* C6: with retries >= 1 and every attempt failing, func is invoked exactly
\* `retries` times and the caller then gets one RuntimeError that names
\* `retries` and carries the last attempt's error; nothing is raised to the
\* caller before that.
C6_ExhaustedRetries ==
    /\ (rpc # "idle" /\ retries >= 1) => Len(calls) <= retries
    /\ (rpc # "idle" /\ retries >= 1 /\ AllFailed /\ Len(calls) = retries) =>
          /\ rpc = "raised"
          /\ raised = <<[type |-> "RuntimeError", retries |-> retries,
                         cause |-> calls[retries].val]>>
    /\ rpc = "raised" => /\ AllFailed
                         /\ Len(calls) = retries
                         /\ Len(raised) = 1
    /\ rpc # "raised" => raised = << >>

\* C6's case: three attempts failed, the last with another error than the
\* first, and the aggregated error carries the last one.
C6_Witness ==
    /\ rpc = "raised"
    /\ retries = 3
    /\ Len(calls) = 3
    /\ calls[1].val = "Timeout"
    /\ calls[3].val = "RateLimit"
    /\ raised[1].cause = "RateLimit"
    /\ raised[1].retries = 3

\* C16: whatever `retries` is, once retry_request has ended func was invoked
\* at least once, and if it ended by returning, the value returned is the one
\* a successful invocation of func produced.
C16_NeverReturnsWithoutSuccess ==
    /\ rpc \in {"returned", "raised"} => Len(calls) >= 1
    /\ rpc = "returned" =>
          \E i \in 1..Len(calls) : calls[i].ok /\ result = calls[i].val

\* C18: retry_request sleeps once, for wait_time, after each failed attempt
\* that is not the last of the `retries` attempts, and at no other time: as
\* many sleeps as failed attempts while it goes on and when an attempt
\* succeeds, retries - 1 sleeps when the attempts are used up, and no sleep
\* added by the step that returns or raises.
C18_OneFixedSleepBetweenAttempts ==
    /\ [](/\ \A i \in 1..Len(sleeps) : sleeps[i] = wait_time
          /\ rpc = "loop" => Len(sleeps) = Len(calls) /\ AllFailed
          /\ (rpc = "returned" /\ Len(calls) >= 1) =>
                /\ calls[Len(calls)].ok
                /\ Len(sleeps) = Len(calls) - 1
          /\ rpc = "raised" =>
                /\ Len(calls) = retries
                /\ Len(sleeps) = retries - 1)
    /\ [][(rpc' \in {"returned", "raised"}) => sleeps' = sleeps]_vars

\* C18's case: with a wait of one second, two failed attempts, each followed
\* by one sleep of that second, and a success on the third attempt.
C18_Witness ==
    /\ rpc = "returned"
    /\ wait_time = 10
    /\ Len(calls) = 3 /\ calls[3].ok
    /\ sleeps = <<10, 10>>

------------------------------------------------------------------------------
(* The usage tracker's claims *)

\* The persisted counters of model m (zero when the document has no entry).
Persisted(m) ==
    IF usageFile.exists /\ m \in DOMAIN usageFile.doc.tokens
    THEN usageFile.doc.tokens[m]
    ELSE [prompt_tokens |-> 0, completion_tokens |-> 0]

\* The persisted overall_cost (0 while there is no file).
PersistedCost == LoadUsage(usageFile).overall_cost

\* C7: after any sequence of sequential updates that starts without a usage
\* file, the persisted prompt_tokens and completion_tokens of every model are
\* the sums of the increments passed for it, a model has an entry exactly when
\* an update named it, and an update leaves the entry of every model it does
\* not name as it was.
C7_CumulativeTotals ==
    /\ [](/\ usageFile.exists <=> nUpdates > 0
          /\ \A m \in TrackedModels :
                /\ Persisted(m) = passed[m]
                /\ (usageFile.exists /\ m \in DOMAIN usageFile.doc.tokens)
                      <=> passed[m] # [prompt_tokens |-> 0,
                                       completion_tokens |-> 0])
    /\ [][\A m \in TrackedModels, u \in Usages :
            UpdateTokensUsage(m, u[1], u[2]) =>
                \A o \in TrackedModels \ {m} :
                    /\ Persisted(o)' = Persisted(o)
                    /\ (o \in DOMAIN usageFile'.doc.tokens)
                          <=> (usageFile.exists
                               /\ o \in DOMAIN usageFile.doc.tokens)]_vars

\* C7's case: +10/+5 then +3/+2 for gpt-4o were persisted as 13/7.
C7_Witness ==
    /\ nUpdates = 2
    /\ usageFile.exists
    /\ DOMAIN usageFile.doc.tokens = {"gpt-4o"}
    /\ usageFile.doc.tokens["gpt-4o"] =
            [prompt_tokens |-> 13, completion_tokens |-> 7]

\* The threads between lock.acquire() returning and lock.release().
InCycle == {t \in Threads : tpc[t] \in {"load", "save", "release"}}

\* C8: with several threads in update_tokens_usage, at most one of them is
\* between the acquire and the release, hence between the file read and the
\* file write, and it is the one holding the lock; once every call has
\* returned, the persisted totals of every model are the sums of all the
\* increments passed.
C8_SerializedUpdates ==
    /\ Cardinality(InCycle) <= 1
    /\ \A t \in InCycle : lock = t
    /\ (nUpdates > 0 /\ \A t \in Threads : tpc[t] = "idle") =>
          /\ usageFile.exists
          /\ \A m \in TrackedModels : Persisted(m) = passed[m]

\* C8's case: after an earlier update, one thread has read the file and not
\* yet written it while another waits at the acquire with an update for the
\* same model.
C8_Witness ==
    /\ usageFile.exists
    /\ tpc["t1"] = "save"
    /\ tpc["t2"] = "acquire"
    /\ targs["t1"].model_name = targs["t2"].model_name
    /\ nUpdates = 3

\* The rates configured for model m; none configured counts as zero.
ConfiguredRate(m) ==
    IF m \in DOMAIN InitialCostRates THEN InitialCostRates[m]
    ELSE [prompt_token_cost |-> FloatZero, completion_token_cost |-> FloatZero]

\* Persisted prompt tokens x prompt rate + persisted completion tokens x
\* completion rate of model m, exactly.
ModelCost(m) ==
    NatPlus(NatTimes(ConfiguredRate(m).prompt_token_cost,
                     Persisted(m).prompt_tokens),
            NatTimes(ConfiguredRate(m).completion_token_cost,
                     Persisted(m).completion_tokens))

\* The sum of ModelCost over all models, exactly.
ExactCost ==
    NatPlus(ModelCost("gpt-4o"),
            NatPlus(ModelCost("gpt-35-turbo"), ModelCost("zephyr")))

\* |a - b|.
AbsDiff(a, b) == IF NatLess(a, b) THEN NatMinus(b, a) ELSE NatMinus(a, b)

\* a / 2^52, rounded down (52 bits are three digits and seven bits).
Over2To52(a) ==
    LET digit(j) == IF j \in LimbIndex THEN a[j] ELSE 0
    IN  [i \in LimbIndex |->
            (digit(i + 3) \div 2^7) + (digit(i + 4) % 2^7) * 2^8]

\* C17 as stated: after any sequence of updates from an absent file,
\* overall_cost equals the sum over all models of cumulative prompt tokens x
\* prompt rate + cumulative completion tokens x completion rate (taken as
\* that sum exactly, or as the float nearest to it), and an update for a
\* model without a configured rate leaves overall_cost unchanged.
C17_CostIsRatesTimesTotals ==
    /\ [](PersistedCost = ExactCost \/ PersistedCost = RoundToFloat(ExactCost))
    /\ [][\A m \in TrackedModels \ DOMAIN InitialCostRates, u \in Usages :
            UpdateTokensUsage(m, u[1], u[2]) =>
                PersistedCost' = PersistedCost]_vars

\* C17, amended: after n updates from an absent file, overall_cost, which is
\* accumulated update by update in floating point, equals that sum up to
\* rounding: the two differ by at most 2n * 2^-52 of the sum (and not at all
\* while no model with a configured rate was updated); and an update for a
\* model without a configured rate leaves overall_cost exactly unchanged.
C17_CostWithinRounding ==
    /\ [](/\ ~NatLess(Over2To52(NatTimes(ExactCost, 2 * nUpdates)),
                       AbsDiff(PersistedCost, ExactCost))
          /\ ExactCost = FloatZero => PersistedCost = FloatZero)
    /\ [][\A m \in TrackedModels \ DOMAIN InitialCostRates, u \in Usages :
            UpdateTokensUsage(m, u[1], u[2]) =>
                PersistedCost' = PersistedCost]_vars

\* C17's case: +10/+5 and +3/+2 for gpt-4o and an update for a model without
\* rates were persisted, and overall_cost is not the exact sum for 13 and 7
\* tokens.
C17_Witness ==
    /\ nUpdates = 3
    /\ Persisted("gpt-4o") = [prompt_tokens |-> 13, completion_tokens |-> 7]
    /\ Persisted("zephyr") = [prompt_tokens |-> 0, completion_tokens |-> 1]
    /\ PersistedCost # ExactCost
    /\ PersistedCost # RoundToFloat(ExactCost)

------------------------------------------------------------------------------
(* The service operations' claims *)

\* The response has at least one tool call.
HasToolCalls(response) ==
    response.tool_calls.type = "list" /\ Len(response.tool_calls.items) >= 1

\* C9: make_request_with_tools that has returned, on either provider: with
\* return_only_tool_response false the result is the response's text content
\* when the response has no tool call and its tool-call list when it has one;
\* with return_only_tool_response true the result is the response's
\* tool_calls value, empty or not, and never the content.
C9_ToolsResultShape ==
    (op.name = "make_request_with_tools" /\ op.status = "returned") =>
        /\ rpc = "returned"
        /\ IF op.return_only_tool_response
           THEN result = op.response.tool_calls
           ELSE IF HasToolCalls(op.response)
                THEN result = op.response.tool_calls
                ELSE result = op.response.content

\* C9's case: with return_only_tool_response set, the Azure service returned
\* the empty tool-call list of a response that had a text content.
C9_Witness ==
    /\ op.name = "make_request_with_tools"
    /\ op.status = "returned"
    /\ svc.class = "AzureOpenAIService"
    /\ op.return_only_tool_response
    /\ op.response.tool_calls = PyList(<< >>)
    /\ op.response.content = PyStr("text")
    /\ result = PyList(<< >>)

\* The service has no vision support for its model.
WithoutVision(s) ==
    \/ s.class = "HuggingFaceService"
    \/ /\ s.class = "AzureOpenAIService"
       /\ s.model_name \notin {"gpt-4o", "gpt-4o-mini", "gpt-4-turbo"}

\* C10: make_request_image on a service without vision support has raised a
\* capability error as soon as it was called: no request was sent, the retry
\* wrapper was not entered, no image file was read, the usage file and the
\* messages list are as they were.
C10_NoVisionNoEffect ==
    (op.name = "make_request_image" /\ WithoutVision(svc)) =>
        /\ op.status = "raised"
        /\ op.error \in {"NotImplementedError", "ValueError:vision"}
        /\ remoteCalls = 0
        /\ rpc = "idle" /\ calls = << >> /\ sleeps = << >>
        /\ filesRead = << >>
        /\ usageFile = op.usageBefore
        /\ messages = op.messagesBefore

\* C10's case: after an operation that recorded usage, the Azure service of a
\* model outside the allow-list was asked for an image that exists.
C10_Witness ==
    /\ op.name = "make_request_image"
    /\ svc.class = "AzureOpenAIService"
    /\ svc.model_name = "gpt-35-turbo"
    /\ op.image_path \in ExistingFiles
    /\ op.status = "raised"
    /\ usageFile.exists

\* C11: make_request_with_tools of the HuggingFace service, called with
\* parallel_tool_calls true, has raised its capability error (a ValueError)
\* as soon as it was called: no request was sent, the retry wrapper was not
\* entered, the usage file is as it was, and the tools list is as the caller
\* passed it, its empty enums still in place.
C11_ParallelRejectedFirst ==
    (/\ op.name = "make_request_with_tools"
     /\ svc.class = "HuggingFaceService"
     /\ op.parallel_tool_calls) =>
        /\ op.status = "raised"
        /\ op.error = "ValueError:parallel_tool_calls"
        /\ remoteCalls = 0
        /\ rpc = "idle" /\ calls = << >> /\ sleeps = << >>
        /\ usageFile = op.usageBefore
        /\ tools = op.toolsBefore
        /\ messages = op.messagesBefore

\* C11's case: after an operation that recorded usage, the HuggingFace service
\* was asked for parallel tool calls with a tool that has an empty enum, which
\* is still there.
C11_Witness ==
    /\ op.name = "make_request_with_tools"
    /\ svc.class = "HuggingFaceService"
    /\ op.parallel_tool_calls
    /\ op.status = "raised"
    /\ usageFile.exists
    /\ Len(tools) = 1
    /\ "unit" \in DOMAIN tools[1].properties
    /\ tools[1].properties["unit"] = Param(TRUE, << >>)
    /\ StripEmptyEnums(tools) # tools

\* The totals the usage file `file` holds for model m (zero without an entry).
TotalsIn(file, m) ==
    IF file.exists /\ m \in DOMAIN file.doc.tokens
    THEN file.doc.tokens[m]
    ELSE [prompt_tokens |-> 0, completion_tokens |-> 0]

\* C12: an operation run through the retry wrapper, on either provider: while
\* every remote call so far has failed, and after the aggregated failure, no
\* usage update was made and the usage file is as it was when the operation
\* was called; an operation that returned did so on its first successful
\* remote call, after exactly one usage update, which added that response's
\* prompt and completion counts to the totals of the service's model and left
\* the totals of every other model alone.
C12_UsageOnlyOnSuccess ==
    /\ op.status = "running" =>
          /\ AllFailed /\ remoteCalls = Len(calls)
          /\ nUpdates = op.updatesBefore
          /\ usageFile = op.usageBefore
    /\ op.status = "raised" =>
          /\ AllFailed
          /\ nUpdates = op.updatesBefore
          /\ usageFile = op.usageBefore
    /\ op.status = "returned" =>
          /\ remoteCalls = Len(calls)
          /\ calls[Len(calls)].ok
          /\ \A i \in 1..(Len(calls) - 1) : ~calls[i].ok
          /\ nUpdates = op.updatesBefore + 1
          /\ usageFile.exists
          /\ TotalsIn(usageFile, svc.model_name) =
                [prompt_tokens |->
                    TotalsIn(op.usageBefore, svc.model_name).prompt_tokens
                        + op.response.usage[1],
                 completion_tokens |->
                    TotalsIn(op.usageBefore, svc.model_name).completion_tokens
                        + op.response.usage[2]]
          /\ \A m \in TrackedModels \ {svc.model_name} :
                TotalsIn(usageFile, m) = TotalsIn(op.usageBefore, m)

\* C12's case: with usage of the same model already recorded, an operation
\* succeeded on its third remote call, after two that failed.
C12_Witness ==
    /\ op.status = "returned"
    /\ Len(calls) = 3
    /\ ~calls[1].ok /\ ~calls[2].ok /\ calls[3].ok
    /\ op.usageBefore.exists
    /\ svc.model_name \in DOMAIN op.usageBefore.doc.tokens
    /\ nUpdates = 2

\* C13: no step of any update_tokens_usage call, the calls being made with
\* token counts (naturals), leaves the persisted prompt total or completion
\* total of any model, or the persisted overall_cost, lower than it was
\* before the step.
C13_TotalsNeverDecrease ==
    [][/\ \A m \in TrackedModels :
            /\ Persisted(m)'.prompt_tokens >= Persisted(m).prompt_tokens
            /\ Persisted(m)'.completion_tokens >= Persisted(m).completion_tokens
       /\ ~NatLess(PersistedCost', PersistedCost)
       /\ usageFile.exists => usageFile'.exists]_vars

\* C13's case: three updates were persisted, for a model with rates and for
\* one without, the last of them with a zero prompt count.
C13_Witness ==
    /\ nUpdates = 3
    /\ \A t \in Threads : tpc[t] = "idle"
    /\ Persisted("gpt-4o") = [prompt_tokens |-> 10, completion_tokens |-> 6]
    /\ Persisted("zephyr") = [prompt_tokens |-> 3, completion_tokens |-> 2]
    /\ NatLess(FloatZero, PersistedCost)

\* The credential the provider named in k needs is not in the environment.
CredentialMissing(k) ==
    \/ k[2] = "AzureOpenAI" /\ ~env.azure
    \/ k[2] = "HuggingFace" /\ ~env.huggingface
    \/ k[2] = "OpenAI" /\ ~env.openai

\* C19: a get_service call that raises leaves the registry and the objects
\* built so far exactly as they were and returns no instance, so the failed
\* key has no entry; every registry entry is a fully constructed object; and a
\* call for a key without an entry, also one that repeats a call that raised,
\* enters the provider's constructor (when the provider is a recognized one)
\* and ends as that construction ends.
C19_FailedCallLeavesRegistry ==
    /\ [](\A k \in DOMAIN services : services[k] \in DOMAIN instances)
    /\ [][\A k \in {lastCall'.args} \cap Keys :
            Called(k) =>
                /\ lastCall'.outcome # "returned" =>
                      /\ services' = services
                      /\ instances' = instances
                      /\ lastCall'.ret = NoInstance
                      /\ k \notin DOMAIN services'
                /\ (k \notin DOMAIN services /\ k[2] \in SupportedProviders) =>
                      /\ lastCall'.ctor # None
                      /\ lastCall'.outcome = "returned" <=>
                            (~InvalidConfig(k) /\ lastCall'.initRan
                             /\ k \in DOMAIN services')]_vars

\* C19's case: with an instance cached, a call that raised in the constructor
\* was repeated with the same arguments; the constructor ran again and raised
\* again, and the key has no entry.
C19_Witness ==
    /\ lastCall.again
    /\ lastCall.ctor # None
    /\ lastCall.initRan
    /\ lastCall.outcome \in {"EnvironmentError", "ValueError:model"}
    /\ lastCall.args \notin DOMAIN services
    /\ services # << >>

\* C15: for every provider, a construction (its arguments valid) made while
\* the provider's credential is absent from the environment has failed with
\* an environment error at client construction, without any network call and
\* without an instance.
C15_MissingCredentialFailsFirst ==
    (/\ lastCall.args # NoArgs
     /\ lastCall.ctor # None
     /\ ~InvalidConfig(lastCall.args)
     /\ CredentialMissing(lastCall.args))
    => /\ lastCall.outcome = "EnvironmentError"
       /\ lastCall.initRan
       /\ ~lastCall.netCall
       /\ lastCall.ret = NoInstance

------------------------------------------------------------------------------
(* The factory under concurrent callers *)

\* The service objects constructed by calls with the arguments `args`.
BuiltBy(args) == {i \in DOMAIN instances : i[1] = args}

\* C14: the test and the insert of get_service are separate steps that
\* nothing makes atomic.  A thread that found the key absent inserts the
\* instance it built whatever the registry holds by then, so that an entry
\* another thread inserted meanwhile is replaced; a thread returns what the
\* registry holds for the key when it returns; and the callers of one key
\* hold different instances only where the constructor ran once for each of
\* them.  (That they can is C14_Witness.)
C14_CheckThenInsertNotAtomic ==
    /\ [][\A t \in Threads :
            /\ StoreInstance(t) =>
                  /\ services'[callers[t].args] = callers[t].built
                  /\ callers[t].args \in DOMAIN services =>
                        services[callers[t].args] # callers[t].built
            /\ ReturnService(t) =>
                  callers'[t].ret = services[callers[t].args]]_vars
    /\ [](\A t \in Threads : \A u \in Threads \ {t} :
            (/\ callers[t].pc = "returned" /\ callers[u].pc = "returned"
             /\ callers[t].args = callers[u].args
             /\ callers[t].ret # callers[u].ret)
            => /\ callers[t].built # NoInstance
               /\ callers[u].built # NoInstance
               /\ callers[t].built # callers[u].built
               /\ BuiltBy(callers[t].args)
                     = {callers[t].built, callers[u].built}
               /\ services[callers[t].args]
                     \in {callers[t].built, callers[u].built})

\* C14's case: two threads called get_service for the same uncached key, both
\* found it absent and constructed, the second insert replaced the first, and
\* the two callers have returned with different instances.
C14_Witness ==
    /\ callers["t1"].pc = "returned" /\ callers["t2"].pc = "returned"
    /\ callers["t1"].args = callers["t2"].args
    /\ callers["t1"].built # NoInstance /\ callers["t2"].built # NoInstance
    /\ Cardinality(BuiltBy(callers["t1"].args)) = 2
    /\ callers["t1"].ret = callers["t1"].built
    /\ callers["t2"].ret = callers["t2"].built
    /\ callers["t1"].ret # callers["t2"].ret
    /\ services[callers["t1"].args] = callers["t2"].built

------------------------------------------------------------------------------
(* C20 *)

\* The threads that are past acquire() and have not yet run the release.
InsideLock == {t \in Threads : tpc[t] \in {"load", "save", "release", "raising"}}

\* C20: update_tokens_usage releases the lock on every exit path, also when
\* reading, parsing or writing the usage file raises.  The lock is held only
\* by a thread that is between its acquire and its release, never by a thread
\* whose call returned or raised, and under fair scheduling every update that
\* waits for the lock gets it, whatever happened to the updates before it.
C20_LockReleasedOnEveryExit ==
    /\ [](\A t \in Threads : lock = t <=> t \in InsideLock)
    /\ \A t \in Threads : (tpc[t] = "acquire") ~> (lock = t)

\* One thread's update raised while writing and left a file that does not
\* parse; the lock is free again and the other thread waits for it.
C20_Witness ==
    /\ usageFile = TruncatedFile
    /\ lock = None
    /\ tpc["t1"] = "idle"
    /\ tpc["t2"] = "acquire"

------------------------------------------------------------------------------
(* C21 *)

\* Python's <= on two numbers: False when either is not a number.
PyLessEq(a, b) == a # NaN /\ b # NaN /\ a <= b

\* What the claim asks of one registry entry: the object's attributes are
\* the key's fields, its class is the one the key's provider selects, and
\* the configuration is in range.
EntryValid(key) ==
    LET inst == instances[services[key]] IN
    /\ inst.model_name = key[1]
    /\ inst.class = ProviderClass(key[2])
    /\ inst.temperature = key[3]
    /\ inst.max_tokens = key[4]
    /\ PyLessEq(0, inst.temperature) /\ PyLessEq(inst.temperature, 20)
    /\ inst.max_tokens >= 1

\* C21: in every reachable state of the factory each registry entry's
\* instance has the model name, temperature and max_tokens of its key and the
\* class its key's provider selects, with 0 <= temperature <= 2 and
\* max_tokens >= 1, and no call changes the attributes of an object that
\* exists.
C21_RegistryEntriesValid ==
    /\ [](\A key \in DOMAIN services : EntryValid(key))
    /\ [][\A i \in DOMAIN instances :
            i \in DOMAIN instances' /\ instances'[i] = instances[i]]_vars

------------------------------------------------------------------------------
(* C22 *)

\* Neither "JSON" nor "json" is in the content.
NoJsonWord(content) == ~Contains(content, "JSON") /\ ~Contains(content, "json")

\* C22: once make_request_json of the Azure service has been called, the
\* messages it works with are the caller's with the JSON-format instruction
\* appended to the first message's content when that content holds neither
\* "JSON" nor "json", and the caller's messages unchanged when it holds
\* either word.
C22_JsonInstructionWhenMissing ==
    (op.name = "make_request_json" /\ svc.class = "AzureOpenAIService") =>
        messages = IF NoJsonWord(op.messagesBefore[1].content)
                   THEN WithJsonInstruction(op.messagesBefore)
                   ELSE op.messagesBefore

------------------------------------------------------------------------------
(* C23 *)

\* Parameter schema `after` is `before` with its 'enum' entry deleted if that
\* entry was an empty list, and `before` itself otherwise.
EnumStripped(before, after) ==
    IF before.hasEnum /\ before.enum = << >>
    THEN ~after.hasEnum /\ after.type = before.type
    ELSE after = before

\* Tool list `after` is `before` with exactly the empty enums deleted.
OnlyEmptyEnumsStripped(before, after) ==
    /\ Len(after) = Len(before)
    /\ \A i \in 1..Len(before) :
        /\ after[i].name = before[i].name
        /\ DOMAIN after[i].properties = DOMAIN before[i].properties
        /\ \A q \in DOMAIN before[i].properties :
                EnumStripped(before[i].properties[q], after[i].properties[q])

\* C23: from the moment make_request_with_tools of the HuggingFace service
\* has passed its parallel_tool_calls test, so before its first request, the
\* tools list is the caller's with the 'enum' entry removed from exactly the
\* parameters whose enum was empty, every other enum and field as it was;
\* every request of the retry loop carried that same list, and no attempt
\* changes it.
C23_EmptyEnumsStrippedOnce ==
    /\ []((/\ op.name = "make_request_with_tools"
           /\ svc.class = "HuggingFaceService"
           /\ ~op.parallel_tool_calls) =>
              /\ OnlyEmptyEnumsStripped(op.toolsBefore, tools)
              /\ Len(sent) = remoteCalls
              /\ \A k \in 1..Len(sent) : sent[k] = tools)
    /\ [][op.status = "running" => tools' = tools]_vars

\* C23's case: the HuggingFace service was given a tool with one empty and
\* one non-empty enum, the first request failed and a second one was sent.
C23_Witness ==
    /\ op.name = "make_request_with_tools"
    /\ svc.class = "HuggingFaceService"
    /\ Len(op.toolsBefore) = 1
    /\ op.toolsBefore[1].name = "convert"
    /\ op.toolsBefore[1].properties["unit"] = Param(TRUE, << >>)
    /\ tools[1].properties["unit"] = Param(FALSE, << >>)
    /\ tools[1].properties["mode"] = Param(TRUE, <<"fast", "exact">>)
    /\ remoteCalls = 2
    /\ Len(calls) = 2
    /\ ~calls[1].ok
    /\ sent = <<tools, tools>>
====
